---- MODULE Spec2Model ----
(***************************************************************************)
(* Model of the OBJ loader of src/src/lib.rs: the line loop of             *)
(* ObjLoader::load, the three attribute handlers, index resolution,        *)
(* vertex welding and fan triangulation.                                   *)
(*                                                                         *)
(* Text is modelled as text: a word is a sequence of one-character         *)
(* strings, a line is the sequence of its whitespace-separated words.      *)
(* The alphabet of the modelled input is sign, decimal digits, "/", "x"    *)
(* and "#"; over that alphabet str::parse for the integer type I and for   *)
(* the float scalar accept exactly [+-]?digit+.  Index values stay far     *)
(* below the width of I, so no arithmetic of the loader wraps.             *)
(***************************************************************************)
EXTENDS Integers, Sequences, FiniteSets, TLC

\* Number of lines one load may consume (bounds the model, not the program).
MaxLines == 3

----------------------------------------------------------------------------
(* Text: str::parse, str::split('/')                                       *)

Digits == {"0", "1", "2", "3", "4", "5", "6", "7", "8", "9"}

DigitVal(c) ==
    CASE c = "0" -> 0 [] c = "1" -> 1 [] c = "2" -> 2 [] c = "3" -> 3
      [] c = "4" -> 4 [] c = "5" -> 5 [] c = "6" -> 6 [] c = "7" -> 7
      [] c = "8" -> 8 [] c = "9" -> 9

RECURSIVE DigitsVal(_, _)
DigitsVal(s, acc) ==
    IF s = <<>> THEN acc
    ELSE DigitsVal(Tail(s), 10 * acc + DigitVal(Head(s)))

\* <S as FromStr>::from_str on a word: optional sign, then one or more digits.
FromStr(s) ==
    IF s = <<>> THEN [ok |-> FALSE, val |-> 0]
    ELSE LET body == IF Head(s) \in {"-", "+"} THEN Tail(s) ELSE s
         IN  IF body = <<>> \/ \E i \in 1..Len(body) : body[i] \notin Digits
             THEN [ok |-> FALSE, val |-> 0]
             ELSE [ok |-> TRUE,
                   val |-> IF Head(s) = "-" THEN 0 - DigitsVal(body, 0)
                           ELSE DigitsVal(body, 0)]

\* A value bound once: F applied to the value of e.
Bind(e, F(_)) == CHOOSE y \in {F(x) : x \in {e}} : TRUE

\* token.split('/'): the fields between slashes, at least one, possibly empty.
RECURSIVE split_from(_, _, _)
split_from(s, cur, acc) ==
    IF s = <<>> THEN Append(acc, cur)
    ELSE split_from(Tail(s),
                    IF Head(s) = "/" THEN <<>> ELSE Append(cur, Head(s)),
                    IF Head(s) = "/" THEN Append(acc, cur) ELSE acc)

split(s) == split_from(s, <<>>, <<>>)

----------------------------------------------------------------------------
(* Scalar and index parsing.  An iterator is the sequence of its items     *)
(* and the number k of the call to next(): every call of parse takes one   *)
(* item, whether it parses or not, so the k-th call reads item k.          *)

parse(tokens, k) ==
    IF Len(tokens) < k
    THEN [ok |-> FALSE, val |-> 0, err |-> "missing scalar"]
    ELSE Bind(FromStr(tokens[k]), LAMBDA r :
             IF r.ok THEN [ok |-> TRUE, val |-> r.val, err |-> ""]
             ELSE [ok |-> FALSE, val |-> 0, err |-> "malformed scalar"])

parse_index_zero_based(tkns, k, n) ==
    Bind(parse(tkns, k), LAMBDA r :
        IF r.ok
        THEN [r EXCEPT !.val = IF r.val >= 0 THEN r.val - 1 ELSE r.val + n]
        ELSE r)

parse_index(tkns, k, n) ==
    Bind(parse(tkns, k), LAMBDA r :
        IF r.ok
        THEN [r EXCEPT !.val = IF r.val > 0 THEN r.val - 1 ELSE r.val + n]
        ELSE r)

\* The first error of the scalars parsed in order, or the tuple of values.
first_err(rs) ==
    IF \A i \in DOMAIN rs : rs[i].ok
    THEN [ok |-> TRUE, val |-> [i \in DOMAIN rs |-> rs[i].val], err |-> ""]
    ELSE [ok |-> FALSE, val |-> <<>>,
          err |-> rs[CHOOSE i \in DOMAIN rs :
                        ~rs[i].ok /\ \A j \in 1..(i - 1) : rs[j].ok].err]

parse_f3(tokens) ==
    first_err(<<parse(tokens, 1), parse(tokens, 2), parse(tokens, 3)>>)

parse_f2(tokens) ==
    first_err(<<parse(tokens, 1), parse(tokens, 2)>>)

\* struct Vertex
Vertex(p, t, n) == [p |-> p, t |-> t, n |-> n]

\* Option::unwrap_or on a parse result.
unwrap_or(r, d) == IF r.ok THEN r.val ELSE d

\* ObjLoader::parse_vertex against the raw pools tmp.
parse_vertex(tmp, token) ==
    Bind(split(token), LAMBDA tokens :
    Bind(parse_index(tokens, 1, Len(tmp.p)), LAMBDA p :
        IF ~p.ok
        THEN [ok |-> FALSE, val |-> Vertex(0, 0, 0),
              err |-> <<"index for position is required", p.err>>]
        ELSE [ok |-> TRUE,
              val |-> Vertex(p.val,
                             unwrap_or(parse_index(tokens, 2, Len(tmp.uv)), 0 - 1),
                             unwrap_or(parse_index(tokens, 3, Len(tmp.n)), 0 - 1)),
              err |-> <<>>]))

----------------------------------------------------------------------------
(* The transform (graphite's T): a uniform scale m and a translation t.    *)
(* A point is scaled and translated, a normal is only scaled.              *)

ToWorlds == {[m |-> 1, t |-> 0], [m |-> 2, t |-> 1]}

MulPoint(tw, x) == [i \in 1..3 |-> tw.m * x[i] + tw.t]
MulNormal(tw, x) == [i \in 1..3 |-> tw.m * x[i]]

----------------------------------------------------------------------------
(* The loader.  A loader value st has the fields of struct ObjLoader       *)
(* (tmp_data as tmp, obj_data as obj, faces, vertex_map as vm, to_world)   *)
(* and the history corners: one entry per face corner that was given a     *)
(* welded index, in processing order.                                      *)

MeshData == [p |-> <<>>, n |-> <<>>, uv |-> <<>>]

new(tw) ==
    [tmp |-> MeshData, obj |-> MeshData, faces |-> <<>>, vm |-> <<>>,
     to_world |-> tw, corners |-> <<>>]

\* Result values of a handler: Ok(()), Err(msg), or a panic that unwinds.
RetOk == [tag |-> "Ok", msg |-> <<>>]
RetErr(m) == [tag |-> "Err", msg |-> m]
RetPanic == [tag |-> "Panic", msg |-> <<>>]

\* Vec indexing seq[i as usize]: in bounds exactly for 0 <= i < len.
InBounds(i, seq) == 0 <= i /\ i < Len(seq)

\* vertex_map is a function from Vertex keys to welded indices.
MapLen(vm) == Cardinality(DOMAIN vm)

vertex_map_get_ignoring_n(vm, v) ==
    Bind({k \in DOMAIN vm : k.p = v.p /\ k.t = v.t}, LAMBDA hit :
        IF hit = {} THEN [some |-> FALSE, i |-> 0]
        ELSE [some |-> TRUE, i |-> vm[CHOOSE k \in hit : TRUE]])

vertex_map_get(vm, v) ==
    IF v \in DOMAIN vm THEN [some |-> TRUE, i |-> vm[v]]
    ELSE [some |-> FALSE, i |-> 0]

vertex_map_insert(vm, v, n) ==
    [k \in (DOMAIN vm) \cup {v} |-> IF k = v THEN n ELSE vm[k]]

add_point(st, tokens) ==
    Bind(parse_f3(tokens), LAMBDA r :
        IF ~r.ok THEN [st |-> st, ret |-> RetErr(<<r.err>>), v |-> <<>>]
        ELSE [st |-> [st EXCEPT !.tmp.p = Append(@, MulPoint(st.to_world, r.val))],
              ret |-> RetOk, v |-> <<>>])

add_uv(st, tokens) ==
    Bind(parse_f2(tokens), LAMBDA r :
        IF ~r.ok THEN [st |-> st, ret |-> RetErr(<<r.err>>), v |-> <<>>]
        ELSE [st |-> [st EXCEPT !.tmp.uv = Append(@, r.val)],
              ret |-> RetOk, v |-> <<>>])

add_normal(st, tokens) ==
    Bind(parse_f3(tokens), LAMBDA r :
        IF ~r.ok THEN [st |-> st, ret |-> RetErr(<<r.err>>), v |-> <<>>]
        ELSE [st |-> [st EXCEPT !.tmp.n = Append(@, MulNormal(st.to_world, r.val))],
              ret |-> RetOk, v |-> <<>>])

\* The statements of add_vertex.  Each takes and gives [panic, st]: a pool
\* read out of bounds panics, and what was pushed before stays pushed.

push_first_p(st, v) ==
    IF ~InBounds(v.p, st.tmp.p) THEN [panic |-> TRUE, st |-> st]
    ELSE [panic |-> FALSE, st |-> [st EXCEPT !.obj.p = Append(@, st.tmp.p[1])]]

\* self.obj_data.p.push(self.tmp_data.p[v.p as usize])
push_p(st, v) ==
    IF ~InBounds(v.p, st.tmp.p) THEN [panic |-> TRUE, st |-> st]
    ELSE [panic |-> FALSE,
          st |-> [st EXCEPT !.obj.p = Append(@, st.tmp.p[v.p + 1])]]

\* if v.t != -1 { self.obj_data.uv.push(self.tmp_data.uv[v.t as usize]) }
push_uv(r, v) ==
    IF r.panic \/ v.t = 0 - 1 THEN r
    ELSE IF ~InBounds(v.t, r.st.tmp.uv) THEN [panic |-> TRUE, st |-> r.st]
    ELSE [panic |-> FALSE,
          st |-> [r.st EXCEPT !.obj.uv = Append(@, r.st.tmp.uv[v.t + 1])]]

\* if v.n != -1 { self.obj_data.n.push(self.tmp_data.n[v.n as usize]) }
push_n(r, v) ==
    IF r.panic \/ v.n = 0 - 1 THEN r
    ELSE IF ~InBounds(v.n, r.st.tmp.n) THEN [panic |-> TRUE, st |-> r.st]
    ELSE [panic |-> FALSE,
          st |-> [r.st EXCEPT !.obj.n = Append(@, r.st.tmp.n[v.n + 1])]]

insert_position_count(r, v) ==
    IF r.panic THEN [panic |-> TRUE, st |-> r.st, i |-> 0]
    ELSE [panic |-> FALSE,
          st |-> [r.st EXCEPT !.vm = vertex_map_insert(@, v, Len(r.st.obj.p))],
          i |-> Len(r.st.obj.p)]

\* let n = self.vertex_map.len() as I; self.vertex_map.insert(v, n); n
insert(r, v) ==
    IF r.panic THEN [panic |-> TRUE, st |-> r.st, i |-> 0]
    ELSE [panic |-> FALSE,
          st |-> [r.st EXCEPT !.vm = vertex_map_insert(@, v, MapLen(r.st.vm))],
          i |-> MapLen(r.st.vm)]

\* ObjLoader::add_vertex
add_vertex(st, v) ==
    Bind(push_p(st, v), LAMBDA r1 :
    Bind(push_uv(r1, v), LAMBDA r2 :
    Bind(push_n(r2, v), LAMBDA r3 : insert(r3, v))))

\* A corner that was given the welded index i.
welded(st, token, key, i) ==
    [tag |-> "Ok", msg |-> <<>>, i |-> i,
     st |-> [st EXCEPT !.corners =
                Append(@, [token |-> token, key |-> key, i |-> i])]]

\* The closure of add_face applied to one corner token.
corner(st, token) ==
    Bind(parse_vertex(st.tmp, token), LAMBDA r :
        IF ~r.ok THEN [tag |-> "Err", msg |-> r.err, st |-> st, i |-> 0]
        ELSE Bind(vertex_map_get(st.vm, r.val), LAMBDA g :
            IF g.some THEN welded(st, token, r.val, g.i)
            ELSE Bind(add_vertex(st, r.val), LAMBDA a :
                IF a.panic
                THEN [tag |-> "Panic", msg |-> <<>>, st |-> a.st, i |-> 0]
                ELSE welded(a.st, token, r.val, a.i))))

\* tokens.map(closure).collect::<Result<Vec<I>, _>>(): stops at the first Err.
RECURSIVE collect(_, _, _)
collect(st, tokens, acc) ==
    IF tokens = <<>> THEN [tag |-> "Ok", msg |-> <<>>, st |-> st, v |-> acc]
    ELSE Bind(corner(st, Head(tokens)), LAMBDA c :
             IF c.tag = "Ok" THEN collect(c.st, Tail(tokens), Append(acc, c.i))
             ELSE [tag |-> c.tag, msg |-> c.msg, st |-> c.st, v |-> <<>>])

triangulate_any_fan(v) ==
    IF Len(v) >= 3
    THEN [ok |-> TRUE, tris |-> [k \in 1..(Len(v) - 2) |-> <<v[1], v[k + 1], v[k + 2]>>]]
    ELSE [ok |-> FALSE, tris |-> <<>>]

triangulate_strip(v) ==
    IF Len(v) = 3 THEN [ok |-> TRUE, tris |-> << <<v[1], v[2], v[3]>> >>]
    ELSE IF Len(v) = 4
    THEN [ok |-> TRUE, tris |-> << <<v[1], v[2], v[3]>>, <<v[2], v[3], v[4]>> >>]
    ELSE [ok |-> FALSE, tris |-> <<>>]

\* match v.len() of add_face: the triangles pushed, or the arity error.
triangulate(v) ==
    IF Len(v) = 3 THEN [ok |-> TRUE, tris |-> << <<v[1], v[2], v[3]>> >>]
    ELSE IF Len(v) = 4
    THEN [ok |-> TRUE, tris |-> << <<v[1], v[2], v[3]>>, <<v[1], v[3], v[4]>> >>]
    ELSE [ok |-> FALSE, tris |-> <<>>]

add_face(st, tokens) ==
    Bind(collect(st, tokens, <<>>), LAMBDA c :
        IF c.tag = "Err" THEN [st |-> c.st, ret |-> RetErr(c.msg), v |-> <<>>]
        ELSE IF c.tag = "Panic" THEN [st |-> c.st, ret |-> RetPanic, v |-> <<>>]
        ELSE Bind(triangulate(c.v), LAMBDA t :
            IF ~t.ok
            THEN [st |-> c.st,
                  ret |-> RetErr(<<"unexpected number of vertices">>), v |-> c.v]
            ELSE [st |-> [c.st EXCEPT !.faces = @ \o t.tris],
                  ret |-> RetOk, v |-> c.v]))

Wv == <<"v">>
Wvt == <<"v", "t">>
Wvn == <<"v", "n">>
Wf == <<"f">>

\* match tokens.next() of load: the handler selected by the first word.
dispatch(st, words) ==
    IF words = <<>> THEN [st |-> st, ret |-> RetOk, v |-> <<>>]
    ELSE IF Head(words) = Wv
    THEN add_point(st, Tail(words))
    ELSE IF Head(words) = Wvt
    THEN add_uv(st, Tail(words))
    ELSE IF Head(words) = Wvn
    THEN add_normal(st, Tail(words))
    ELSE IF Head(words) = Wf
    THEN add_face(st, Tail(words))
    ELSE [st |-> st, ret |-> RetOk, v |-> <<>>]

\* What load has handed to its caller so far.
Running == [tag |-> "Running"]
LoadOk(st) == [tag |-> "Ok", mesh |-> st.obj, faces |-> st.faces]
LoadErr(m) == [tag |-> "Err", msg |-> m]
LoadPanic == [tag |-> "Panic"]

try_skip_and_continue(st, ret) ==
    IF ret.tag = "Panic" THEN LoadPanic ELSE Running

\* The ? after the match of load (and the unwinding of a panic).
try(st, ret) ==
    IF ret.tag = "Err" THEN LoadErr(ret.msg)
    ELSE IF ret.tag = "Panic" THEN LoadPanic
    ELSE Running

----------------------------------------------------------------------------
(* The input menu: the lines a load may be given.                          *)

ScalarArgs3 ==
    {<<a, <<"0">>, c>> : a \in {<<"0">>, <<"1">>, <<"x">>}, c \in {<<"0">>, <<"x">>}}
    \cup {<<>>, << <<"1">>, <<"0">> >>, << <<"1">>, <<"0">>, <<"0">>, <<"x">> >>}

ScalarArgs2 ==
    {<<a, b>> : a \in {<<"0">>, <<"1">>}, b \in {<<"0">>, <<"x">>}}
    \cup {<< <<"1">> >>}

PointLines == {<<Wv>> \o a : a \in ScalarArgs3}
UvLines == {<<Wvt>> \o a : a \in ScalarArgs2}
NormalLines == {<<Wvn>> \o a : a \in ScalarArgs3}
OtherLines == {<<>>, << <<"#">> >>}

\* Corner tokens.
T1 == <<"1">>
T2 == <<"2">>
Tm1 == <<"-", "1">>
T1s1 == <<"1", "/", "1">>

CoreTokens == {T1, T2, Tm1}

OddTokens ==
    { <<"0">>, <<"3">>, <<"-", "2">>, <<"x">>,
      <<"/", "1">>,
      <<"1", "/">>,
      <<"1", "/", "x">>,
      <<"1", "/", "0">>,
      <<"1", "/", "2">>,
      <<"1", "/", "-", "1">>,
      <<"-", "1", "/", "1">>,
      <<"2", "/", "1">>,
      <<"1", "/", "/", "1">>,
      <<"1", "/", "/", "x">>,
      <<"1", "/", "1", "/", "1">>,
      <<"1", "/", "1", "/", "2">> }

CornerLists ==
    {<<a, b, c>> : a \in CoreTokens, b \in CoreTokens, c \in CoreTokens}
    \cup {<<a, b, a>> : a \in {T1, T1s1}, b \in OddTokens}
    \cup {<<b, b, b>> : b \in OddTokens \cup {T1s1}}
    \cup {<<T1, b, c, d>> : b \in {T2, Tm1}, c \in {T1, T1s1}, d \in {T2, Tm1}}
    \cup {<<>>, <<T1>>, <<T1, Tm1>>, <<T1, T2>>, << <<"x">>, T1 >>,
          <<T1, Tm1, T1, T1, T1>>}

FaceLines == {<<Wf>> \o a : a \in CornerLists}

----------------------------------------------------------------------------
(* State.                                                                  *)

VARIABLES
    tmp_data,     \* raw pools p, n, uv
    obj_data,     \* welded output p, n, uv
    faces,        \* triangles
    vertex_map,   \* Vertex -> welded index
    to_world,     \* the caller's transform
    corners,      \* history: the corners given a welded index
    line,         \* the words of the line read last
    v,            \* add_face's local v, once bound
    ret,          \* the value the last ? of load was applied to
    result,       \* what the caller has: Running, Ok, Err or Panic
    nlines        \* lines consumed

vars ==
    <<tmp_data, obj_data, faces, vertex_map, to_world, corners, line, v, ret,
      result, nlines>>

\* The loader value made of the state variables.
self ==
    [tmp |-> tmp_data, obj |-> obj_data, faces |-> faces, vm |-> vertex_map,
     to_world |-> to_world, corners |-> corners]

Init ==
    \E tw \in ToWorlds :
        /\ tmp_data = new(tw).tmp
        /\ obj_data = new(tw).obj
        /\ faces = new(tw).faces
        /\ vertex_map = new(tw).vm
        /\ to_world = new(tw).to_world
        /\ corners = new(tw).corners
        /\ line = <<>>
        /\ v = <<>>
        /\ ret = RetOk
        /\ result = Running
        /\ nlines = 0

\* One iteration of the loop of load on the line words.
Iterate(words) ==
    /\ result = Running
    /\ nlines < MaxLines
    /\ \E o \in {dispatch(self, words)} :
           /\ tmp_data' = o.st.tmp
           /\ obj_data' = o.st.obj
           /\ faces' = o.st.faces
           /\ vertex_map' = o.st.vm
           /\ corners' = o.st.corners
           /\ v' = o.v
           /\ ret' = o.ret
           /\ result' = try(o.st, o.ret)
    /\ line' = words
    /\ nlines' = nlines + 1
    /\ UNCHANGED to_world

ReadPoint == \E w \in PointLines : Iterate(w)
ReadUv == \E w \in UvLines : Iterate(w)
ReadNormal == \E w \in NormalLines : Iterate(w)
ReadFace == \E w \in FaceLines : Iterate(w)
ReadOther == \E w \in OtherLines : Iterate(w)

\* buf.read_line fails: the first ? of load returns the error.
ReadFail ==
    /\ result = Running
    /\ ret' = RetErr(<<"Error reading line">>)
    /\ result' = try(self, ret')
    /\ line' = <<>>
    /\ v' = <<>>
    /\ UNCHANGED <<tmp_data, obj_data, faces, vertex_map, to_world, corners, nlines>>

\* buf.read_line returns 0: the loop ends and load returns Ok.
Eof ==
    /\ result = Running
    /\ result' = LoadOk(self)
    /\ ret' = RetOk
    /\ line' = <<>>
    /\ v' = <<>>
    /\ UNCHANGED <<tmp_data, obj_data, faces, vertex_map, to_world, corners, nlines>>

Next ==
    \/ ReadPoint
    \/ ReadUv
    \/ ReadNormal
    \/ ReadFace
    \/ ReadOther
    \/ ReadFail
    \/ Eof

Spec == Init /\ [][Next]_vars

----------------------------------------------------------------------------
(* Vocabulary of the properties.                                           *)

IsFace(l) == l # <<>> /\ Head(l) = Wf
IsPoint(l) == l # <<>> /\ Head(l) = Wv
IsUv(l) == l # <<>> /\ Head(l) = Wvt
IsNormal(l) == l # <<>> /\ Head(l) = Wvn

\* The corner tokens of a face line.
Args(l) == Tail(l)

Size == Cardinality(DOMAIN vertex_map)
Panicked == result.tag = "Panic"

\* Decimal text of a small integer.
Dec(k) ==
    CASE k = 0 -> <<"0">> [] k = 1 -> <<"1">> [] k = 2 -> <<"2">>
      [] k = 3 -> <<"3">> [] k = 4 -> <<"4">> [] k = 5 -> <<"5">>
      [] k = 6 -> <<"6">> [] k = 7 -> <<"7">> [] k = 8 -> <<"8">>
      [] k = 9 -> <<"9">>
Numeral(k) == IF k < 0 THEN <<"-">> \o Dec(0 - k) ELSE Dec(k)

IndexValues == (0 - 4)..4

\* What may follow the position field of a corner token.
Suffixes ==
    { <<>>, <<"/", "1">>, <<"/", "/", "1">>, <<"/", "1", "/", "1">>,
      <<"/", "x">>, <<"/", "-", "1">> }

\* The key a corner token resolves to against the current pools.
KeyOf(token) == parse_vertex(tmp_data, token).val

\* A corner token resolves: its position parses and every index that is
\* read falls inside its pool.
Resolvable(token) ==
    LET r == parse_vertex(tmp_data, token)
    IN  /\ r.ok
        /\ InBounds(r.val.p, tmp_data.p)
        /\ (r.val.t = 0 - 1 \/ InBounds(r.val.t, tmp_data.uv))
        /\ (r.val.n = 0 - 1 \/ InBounds(r.val.n, tmp_data.n))

CornerKeys == {corners[i].key : i \in DOMAIN corners}

\* C1: two face corners with equal resolved (p,t,n) triples have been given
\* the same welded index, and vertex_map has as many entries as there are
\* distinct resolved triples among the corners welded so far.
C1_Welding ==
    /\ \A i \in DOMAIN corners : \A j \in DOMAIN corners :
           corners[i].key = corners[j].key => corners[i].i = corners[j].i
    /\ Size = Cardinality(CornerKeys)
    /\ DOMAIN vertex_map = CornerKeys

C1_Witness ==
    /\ \E i \in DOMAIN corners : \E j \in DOMAIN corners :
           /\ i # j
           /\ corners[i].token # corners[j].token
           /\ corners[i].key = corners[j].key
    /\ Size >= 2

\* C2: every index of every triangle of the face list is >= 0 and below the
\* length of the welded position output, which is the size of vertex_map
\* (in a load that did not die inside add_vertex).
C2_IndexRange ==
    /\ \A k \in DOMAIN faces : \A c \in 1..3 :
           faces[k][c] >= 0 /\ faces[k][c] < Len(obj_data.p)
    /\ (~Panicked => Len(obj_data.p) = Size)

C2_Witness ==
    /\ Len(faces) >= 2
    /\ \E k \in DOMAIN faces : \E c \in 1..3 : faces[k][c] = Len(obj_data.p) - 1
    /\ Len(obj_data.p) >= 2

\* C3: a face line whose corners resolve to the welded indices [c0,c1,c2]
\* appends exactly the triangle (c0,c1,c2); one with [c0,c1,c2,c3] appends
\* exactly (c0,c1,c2) then (c0,c2,c3); every other step leaves the face list
\* as it is, so the list is in file order and earlier triangles never change.
C3_Triangulation ==
    [][ LET n == Len(Args(line'))
            bound == IsFace(line') /\ Len(v') = n /\ n \in {3, 4}
        IN  /\ bound =>
                \A k \in 1..n : v'[k] = vertex_map'[KeyOf(Args(line')[k])]
            /\ (bound /\ n = 3) =>
                faces' = faces \o << <<v'[1], v'[2], v'[3]>> >>
            /\ (bound /\ n = 4) =>
                faces' = faces \o << <<v'[1], v'[2], v'[3]>>,
                                     <<v'[1], v'[3], v'[4]>> >>
            /\ ~bound => faces' = faces
      ]_vars

C3_Witness ==
    /\ IsFace(line)
    /\ Len(v) = 4
    /\ v[1] # v[2]
    /\ faces = << <<v[1], v[2], v[3]>>, <<v[1], v[3], v[4]>> >>

\* C4: an index field of value val > 0 resolves to val-1 and one of value
\* val <= 0 to val+L; with N >= 1 positions a corner whose position field is
\* -1 resolves to position N-1 and to the key of the corner written with N
\* and the same texture/normal fields, and both get the same welded index.
C4_RelativeIndex ==
    LET N == Len(tmp_data.p)
    IN  /\ \A val \in IndexValues :
            \A L \in {Len(tmp_data.p), Len(tmp_data.uv), Len(tmp_data.n)} :
                LET r == parse_index(<<Numeral(val)>>, 1, L)
                IN  r.ok /\ r.val = IF val > 0 THEN val - 1 ELSE val + L
        /\ N >= 1 =>
            \A sfx \in Suffixes :
                LET a == parse_vertex(tmp_data, Tm1 \o sfx)
                    b == parse_vertex(tmp_data, Numeral(N) \o sfx)
                IN  a.ok /\ b.ok /\ a.val = b.val /\ a.val.p = N - 1
        /\ (N >= 1 /\ IsFace(line) /\ Len(v) = Len(Args(line))) =>
            \A i \in DOMAIN v : \A j \in DOMAIN v : \A sfx \in Suffixes :
                (Args(line)[i] = Tm1 \o sfx /\ Args(line)[j] = Numeral(N) \o sfx)
                    => v[i] = v[j]

C4_Witness ==
    /\ Len(tmp_data.p) = 2
    /\ IsFace(line)
    /\ ret.tag = "Ok"
    /\ \E i \in DOMAIN v : \E j \in DOMAIN v :
           /\ Args(line)[i] = Tm1
           /\ Args(line)[j] = T2
           /\ v[i] = v[j]
           /\ v[i] = vertex_map[Vertex(1, 0 - 1, 0 - 1)]

\* C5: a face line whose number of corner tokens is neither 3 nor 4, all of
\* them resolvable, makes the load return the arity error; the face list is
\* left as it was and the caller gets an error, not a mesh.
C5_ArityFailFast ==
    [][ (/\ IsFace(line')
         /\ Len(Args(line')) \notin {3, 4}
         /\ \A k \in DOMAIN Args(line') : Resolvable(Args(line')[k]))
        => /\ result' = LoadErr(<<"unexpected number of vertices">>)
           /\ faces' = faces
      ]_vars

C5_Witness ==
    /\ IsFace(line)
    /\ Len(Args(line)) = 5
    /\ Len(v) = 5
    /\ faces # <<>>
    /\ result.tag = "Err"

\* C6: a load ends by returning Ok or Err and in no other way; an index
\* outside its pool gives a returned error.
C6_ReturnsOkOrErr == result.tag \in {"Running", "Ok", "Err"}

\* A numeric field that is present (not empty) and does not parse.
Unparsable(word) == word # <<>> /\ ~FromStr(word).ok

FirstFields(seq, k) == {seq[i] : i \in 1..(IF Len(seq) < k THEN Len(seq) ELSE k)}

HasUnparsableField(l) ==
    \/ (IsPoint(l) \/ IsNormal(l)) /\ \E w \in FirstFields(Args(l), 3) : Unparsable(w)
    \/ IsUv(l) /\ \E w \in FirstFields(Args(l), 2) : Unparsable(w)
    \/ IsFace(l) /\ \E k \in DOMAIN Args(l) :
          \E w \in FirstFields(split(Args(l)[k]), 3) : Unparsable(w)

\* C7: a line with a present but unparsable numeric field (a scalar of a
\* v/vt/vn record, or the p, t or n field of a face corner) aborts the load
\* with an error.
C7_UnparsableAborts ==
    (HasUnparsableField(line) /\ ~Panicked) => result.tag = "Err"

\* C8: once a line has yielded an error the load returns exactly that error,
\* carrying nothing of what was accumulated, and no further line is consumed.
C8_FirstErrorAborts ==
    /\ [](ret.tag = "Err" => result = LoadErr(ret.msg))
    /\ [][ret.tag # "Err"]_vars

C8_Witness ==
    /\ ret.tag = "Err"
    /\ IsFace(line)
    /\ tmp_data.p # <<>>
    /\ obj_data.p # <<>>
    /\ faces # <<>>
    /\ result.tag = "Err"

\* A corner token that carries a texture (normal) field: the field is there
\* and is an integer.
Field(token, k) ==
    LET f == split(token) IN IF Len(f) >= k THEN f[k] ELSE <<>>
CarriesT(token) == FromStr(Field(token, 2)).ok
CarriesN(token) == FromStr(Field(token, 3)).ok

Aligned(out, pool, sel(_)) ==
    /\ Len(out) = Len(obj_data.p)
    /\ \A k \in DOMAIN vertex_map :
           /\ InBounds(vertex_map[k], out)
           /\ InBounds(sel(k), pool)
           /\ out[vertex_map[k] + 1] = pool[sel(k) + 1]

KeyT(k) == k.t
KeyN(k) == k.n

\* C9: on success, if every corner of every face line carries a texture
\* (normal) field, the output texture (normal) sequence is as long as the
\* output positions and entry i is the attribute of welded vertex i; if every
\* corner omits the field the output sequence is empty.
C9_AttributeAlignment ==
    (result.tag = "Ok" /\ corners # <<>>) =>
        /\ (\A i \in DOMAIN corners : CarriesT(corners[i].token))
               => Aligned(result.mesh.uv, tmp_data.uv, KeyT)
        /\ (\A i \in DOMAIN corners : CarriesN(corners[i].token))
               => Aligned(result.mesh.n, tmp_data.n, KeyN)
        /\ (\A i \in DOMAIN corners : Field(corners[i].token, 2) = <<>>)
               => result.mesh.uv = <<>>
        /\ (\A i \in DOMAIN corners : Field(corners[i].token, 3) = <<>>)
               => result.mesh.n = <<>>

IsPrefix(s, t) == Len(s) <= Len(t) /\ \A i \in DOMAIN s : s[i] = t[i]

\* The corners at which a key appears for the first time.
IsFirst(i) == \A j \in 1..(i - 1) : corners[j].key # corners[i].key

\* C10: the values of vertex_map are exactly 0..size-1, given in order of
\* first appearance of the keys; the welded position output has size entries
\* (in a load that did not die inside add_vertex) and entry i is the raw pool
\* position p of the key of welded index i; raw pool entries never change;
\* a corner whose key is in the table appends nothing to the output.
C10_WeldedContent ==
    /\ [](/\ {vertex_map[k] : k \in DOMAIN vertex_map} = 0..(Size - 1)
          /\ \A i \in DOMAIN corners :
                 /\ corners[i].key \in DOMAIN vertex_map
                 /\ corners[i].i = vertex_map[corners[i].key]
                 /\ IsFirst(i) =>
                        corners[i].i = Cardinality({corners[j].key : j \in 1..(i - 1)})
          /\ \A k \in DOMAIN vertex_map :
                 /\ InBounds(k.p, tmp_data.p)
                 /\ InBounds(vertex_map[k], obj_data.p)
                 /\ obj_data.p[vertex_map[k] + 1] = tmp_data.p[k.p + 1]
          /\ ~Panicked =>
                 /\ Len(obj_data.p) = Size
                 /\ Len(obj_data.uv) = Cardinality({k \in DOMAIN vertex_map : k.t # 0 - 1})
                 /\ Len(obj_data.n) = Cardinality({k \in DOMAIN vertex_map : k.n # 0 - 1}))
    /\ [][ /\ IsPrefix(tmp_data.p, tmp_data'.p)
           /\ IsPrefix(obj_data.p, obj_data'.p)
           /\ (DOMAIN vertex_map' = DOMAIN vertex_map /\ ~Panicked') =>
                  obj_data' = obj_data
       ]_vars

C10_Witness ==
    /\ Size >= 2
    /\ \E k \in DOMAIN vertex_map : k.p = 1 /\ vertex_map[k] = 0
    /\ \E k \in DOMAIN vertex_map : k.p = 0 /\ vertex_map[k] = 1
    /\ tmp_data.p[1] # tmp_data.p[2]
    /\ Len(corners) > Size
    /\ ~Panicked

====
